---- MODULE Spec2Model ----
(***************************************************************************)
(* Hotel reservation system (src/Hotel_reservations.py).                   *)
(*                                                                         *)
(* Three JSON files hold the hotels, the customers and the reservations,   *)
(* each a mapping from an id to a record.  Every operation loads the       *)
(* mappings it needs, changes them in memory and writes them back.         *)
(*                                                                         *)
(* Three specifications are given:                                         *)
(*   Spec       sequential access: every operation is one atomic step;     *)
(*   SpecConc   two callers whose create_reservation calls interleave at   *)
(*              the granularity of one file access;                        *)
(*   SpecCrash  one caller of the hotel and reservation operations whose   *)
(*              create_reservation / cancel_reservation may stop between   *)
(*              two file accesses.                                         *)
(***************************************************************************)
EXTENDS Integers, FiniteSets, Sequences, TLC

\* ------------------------------------------------------------------ bounds
\* At most MaxHotels hotels, MaxCustomers customers and MaxReservations
\* reservations are ever created (the uuid counters are capped in the guards).
MaxHotels == 2
MaxCustomers == 1
MaxReservations == 2
\* Largest `rooms` argument handed to create_hotel.
MaxRooms == 1
\* How many times the process may stop inside a call (SpecCrash only).
MaxCrashes == 1

\* ------------------------------------------------------------------ inputs
\* create_hotel does not validate rooms: zero and negative values pass through.
\* The rooms arguments tried are a negative one, zero and the largest.
RoomsInputs == {0 - 1, 0, MaxRooms}
Names == {"Test Hotel"}
Locations == {"NYC"}
CustomerNames == {"Alice"}
Emails == {"alice@example.com"}
\* Ids a caller may hand in: every id that uuid4 may ever return for the kind
\* (whether or not it is currently stored).
HotelIds == 1..MaxHotels
CustomerIds == 1..MaxCustomers
ReservationIds == 1..MaxReservations
\* The customer of the reservation calls that are taken apart into steps.
TheCustomer == CHOOSE c \in CustomerIds : \A d \in CustomerIds : c <= d
\* create_hotel / create_customer / create_reservation return an object, whose
\* id is recorded; NoId records the None returned by a refused reservation.
NoId == 0

\* Callers.  Main is the single caller of the sequential specification.
Procs == {"main", "other"}
Main == "main"

VARIABLES
    hotelsFile,         \* hotels.json
    customersFile,      \* customers.json
    reservationsFile,   \* reservations.json
    uuids,              \* how many ids uuid4 has issued, per kind of record
    pc,                 \* pc[p]: where caller p stands inside an operation
    loc,                \* loc[p]: the local variables of caller p's operation
    ret,                \* ret[p]: caller p's latest call and what it returned
    crashes             \* how many times the process has stopped inside a call

vars == <<hotelsFile, customersFile, reservationsFile, uuids, pc, loc, ret,
          crashes>>
files == <<hotelsFile, customersFile, reservationsFile>>

\* ------------------------------------------------------------- persistence
\* A file is missing, holds a JSON object (state "ok"), holds text that is
\* not JSON (state "corrupt") or holds bytes that are not UTF-8 text (state
\* "undecodable"); data is the mapping it encodes when "ok".
EmptyMapping == <<>>
MissingFile == [state |-> "missing", data |-> EmptyMapping]

\* load_data, line 26: only json.JSONDecodeError and FileNotFoundError are
\* caught; reading bytes that are not UTF-8 raises UnicodeDecodeError, which
\* leaves load_data and the operation that called it.
LoadRaises(file) ==
    file.state = "undecodable"

\* load_data where it returns: the stored mapping, or {} when the file is
\* missing or its text is not JSON.
load_data(file) ==
    IF file.state = "ok" THEN file.data ELSE EmptyMapping

\* save_data: the file afterwards holds exactly `data` (full overwrite).
save_data(data) ==
    [state |-> "ok", data |-> data]

\* Put on a mapping that was not loaded first: only the new key is kept.
Put_Fresh(mapping, key, value) ==
    [k \in {key} |-> value]

\* mapping[key] = value on a dict.
Put(mapping, key, value) ==
    [k \in (DOMAIN mapping) \cup {key} |-> IF k = key THEN value ELSE mapping[k]]

\* Del that empties the mapping.
Del_All(mapping, key) ==
    EmptyMapping

\* del mapping[key] on a dict.
Del(mapping, key) ==
    [k \in (DOMAIN mapping) \ {key} |-> mapping[k]]

\* ----------------------------------------------------------------- records
\* Hotel.__init__ followed by Hotel.to_dict.
HotelDict(hotel_id, name, location, rooms) ==
    [hotel_id |-> hotel_id, name |-> name, location |-> location,
     rooms |-> rooms, available_rooms |-> rooms]

\* Customer.__init__ followed by Customer.to_dict.
CustomerDict(customer_id, name, email) ==
    [customer_id |-> customer_id, name |-> name, email |-> email]

\* Reservation.__init__ followed by Reservation.to_dict.
ReservationDict(reservation_id, customer_id, hotel_id) ==
    [reservation_id |-> reservation_id, customer_id |-> customer_id,
     hotel_id |-> hotel_id]

\* ------------------------------------------------- create_reservation parts
\* CanReserve without the test for zero available rooms.
CanReserve_NoZeroCheck(hotels, hotel_id) ==
    hotel_id \in DOMAIN hotels

\* CanReserve without the test that the hotel is stored.
CanReserve_NoExistCheck(hotels, hotel_id) ==
    IF hotel_id \in DOMAIN hotels
    THEN hotels[hotel_id].available_rooms # 0
    ELSE TRUE

\* The negation of the refusal test of create_reservation:
\* hotel_id not in hotels or hotels[hotel_id]["available_rooms"] == 0.
CanReserve(hotels, hotel_id) ==
    /\ hotel_id \in DOMAIN hotels
    /\ hotels[hotel_id].available_rooms # 0

\* TakeRoom taking two rooms.
TakeRoom_Twice(hotels, hotel_id) ==
    [hotels EXCEPT ![hotel_id].available_rooms = @ - 2]

\* TakeRoom that lowers the capacity along with the availability.
TakeRoom_Capacity(hotels, hotel_id) ==
    [hotels EXCEPT ![hotel_id].available_rooms = @ - 1,
                   ![hotel_id].rooms = @ - 1]

\* hotels[hotel_id]["available_rooms"] -= 1
TakeRoom(hotels, hotel_id) ==
    [hotels EXCEPT ![hotel_id].available_rooms = @ - 1]

\* GiveRoomBack that gives nothing back.
GiveRoomBack_Not(hotels, hotel_id) ==
    hotels

\* hotels[hotel_id]["available_rooms"] += 1
GiveRoomBack(hotels, hotel_id) ==
    [hotels EXCEPT ![hotel_id].available_rooms = @ + 1]

\* ------------------------------------------------------------ call records
\* The local variables of a reservation call in progress; seen keeps the
\* hotel's available_rooms as loaded, before the call changes its copy.
NoLocals ==
    [customer_id |-> NoId, hotel_id |-> NoId, reservation_id |-> NoId,
     reservations |-> EmptyMapping, hotels |-> EmptyMapping, seen |-> 0]

\* What a caller knows once a call has returned.
\*   op, args  the call;
\*   id        the id of the object returned (NoId for None, or when the
\*             operation returns a bool);
\*   ok        the bool returned (for a create operation: an object came back);
\*   hotel     the hotel a reservation call read (NoId when it read none);
\*   seen      that hotel's available_rooms as the call loaded it (0 if none);
\*   after     for a cancel: the reservation the caller's previous call
\*             created (NoId when it created none).
Returned(op, args, id, ok) ==
    [op |-> op, args |-> args, id |-> id, ok |-> ok,
     hotel |-> NoId, seen |-> 0, after |-> NoId]

\* available_rooms of hotel_id as a loaded hotels mapping shows it.
Seen(hotels, hotel_id) ==
    IF hotel_id \in DOMAIN hotels THEN hotels[hotel_id].available_rooms ELSE 0

\* The same for a reservation call that read hotel_id; before is the caller's
\* previous call record.
ReturnedAt(op, args, id, ok, hotel_id, seen, before) ==
    [op |-> op, args |-> args, id |-> id, ok |-> ok,
     hotel |-> hotel_id, seen |-> seen,
     after |-> IF op = "cancel_reservation" /\ before.op = "create_reservation"
               THEN before.id ELSE NoId]

NoCall == Returned("none", <<>>, NoId, FALSE)

Init ==
    /\ hotelsFile = MissingFile
    /\ customersFile = MissingFile
    /\ reservationsFile = MissingFile
    /\ uuids = [hotel |-> 0, customer |-> 0, reservation |-> 0]
    /\ pc = [p \in Procs |-> "idle"]
    /\ loc = [p \in Procs |-> NoLocals]
    /\ ret = [p \in Procs |-> NoCall]
    /\ crashes = 0

\* ---------------------------------------------- whole operations (atomic)
\* Hotel.create_hotel
CreateHotel(p, name, location, rooms) ==
    /\ pc[p] = "idle"
    /\ uuids.hotel < MaxHotels
    /\ LET hotels == load_data(hotelsFile)
           hotel_id == uuids.hotel + 1
       IN /\ hotelsFile' = save_data(Put(hotels, hotel_id,
                                HotelDict(hotel_id, name, location, rooms)))
          /\ uuids' = [uuids EXCEPT !.hotel = hotel_id]
          /\ ret' = [ret EXCEPT ![p] =
                        Returned("create_hotel", <<name, location, rooms>>,
                                 hotel_id, TRUE)]
    /\ UNCHANGED <<customersFile, reservationsFile, pc, loc, crashes>>

\* delete_hotel without the membership test: it saves and returns True always.
DeleteHotel_AlwaysSaves(p, hotel_id) ==
    /\ pc[p] = "idle"
    /\ LET hotels == load_data(hotelsFile)
       IN /\ hotelsFile' = save_data(Del(hotels, hotel_id))
          /\ ret' = [ret EXCEPT ![p] =
                        Returned("delete_hotel", <<hotel_id>>, NoId, TRUE)]
    /\ UNCHANGED <<customersFile, reservationsFile, uuids, pc, loc, crashes>>

\* delete_hotel that also deletes the reservations made against the hotel.
DeleteHotel_Cascades(p, hotel_id) ==
    /\ pc[p] = "idle"
    /\ LET hotels == load_data(hotelsFile)
           reservations == load_data(reservationsFile)
           kept == {r \in DOMAIN reservations :
                        reservations[r].hotel_id # hotel_id}
       IN IF hotel_id \in DOMAIN hotels
          THEN /\ hotelsFile' = save_data(Del(hotels, hotel_id))
               /\ reservationsFile' =
                        save_data([r \in kept |-> reservations[r]])
               /\ ret' = [ret EXCEPT ![p] =
                            Returned("delete_hotel", <<hotel_id>>, NoId, TRUE)]
          ELSE /\ hotelsFile' = hotelsFile
               /\ reservationsFile' = reservationsFile
               /\ ret' = [ret EXCEPT ![p] =
                            Returned("delete_hotel", <<hotel_id>>, NoId, FALSE)]
    /\ UNCHANGED <<customersFile, uuids, pc, loc, crashes>>

\* Hotel.delete_hotel
DeleteHotel(p, hotel_id) ==
    /\ pc[p] = "idle"
    /\ LET hotels == load_data(hotelsFile)
       IN IF hotel_id \in DOMAIN hotels
          THEN /\ hotelsFile' = save_data(Del(hotels, hotel_id))
               /\ ret' = [ret EXCEPT ![p] =
                            Returned("delete_hotel", <<hotel_id>>, NoId, TRUE)]
          ELSE /\ hotelsFile' = hotelsFile
               /\ ret' = [ret EXCEPT ![p] =
                            Returned("delete_hotel", <<hotel_id>>, NoId, FALSE)]
    /\ UNCHANGED <<customersFile, reservationsFile, uuids, pc, loc, crashes>>

\* Customer.create_customer
CreateCustomer(p, name, email) ==
    /\ pc[p] = "idle"
    /\ uuids.customer < MaxCustomers
    /\ LET customers == load_data(customersFile)
           customer_id == uuids.customer + 1
       IN /\ customersFile' = save_data(Put(customers, customer_id,
                                CustomerDict(customer_id, name, email)))
          /\ uuids' = [uuids EXCEPT !.customer = customer_id]
          /\ ret' = [ret EXCEPT ![p] =
                        Returned("create_customer", <<name, email>>,
                                 customer_id, TRUE)]
    /\ UNCHANGED <<hotelsFile, reservationsFile, pc, loc, crashes>>

\* Customer.delete_customer
DeleteCustomer(p, customer_id) ==
    /\ pc[p] = "idle"
    /\ LET customers == load_data(customersFile)
       IN IF customer_id \in DOMAIN customers
          THEN /\ customersFile' = save_data(Del(customers, customer_id))
               /\ ret' = [ret EXCEPT ![p] =
                            Returned("delete_customer", <<customer_id>>, NoId, TRUE)]
          ELSE /\ customersFile' = customersFile
               /\ ret' = [ret EXCEPT ![p] =
                            Returned("delete_customer", <<customer_id>>, NoId, FALSE)]
    /\ UNCHANGED <<hotelsFile, reservationsFile, uuids, pc, loc, crashes>>

\* create_reservation that also refuses a customer_id that is not stored.
CreateReservation_ChecksCustomer(p, customer_id, hotel_id) ==
    /\ pc[p] = "idle"
    /\ LET reservations == load_data(reservationsFile)
           hotels == load_data(hotelsFile)
           reservation_id == uuids.reservation + 1
       IN IF \/ ~CanReserve(hotels, hotel_id)
             \/ customer_id \notin DOMAIN load_data(customersFile)
          THEN /\ ret' = [ret EXCEPT ![p] =
                            ReturnedAt("create_reservation",
                                       <<customer_id, hotel_id>>, NoId, FALSE,
                                       hotel_id, Seen(hotels, hotel_id), ret[p])]
               /\ UNCHANGED <<hotelsFile, reservationsFile, uuids>>
          ELSE /\ uuids.reservation < MaxReservations
               /\ hotelsFile' = save_data(TakeRoom(hotels, hotel_id))
               /\ reservationsFile' = save_data(Put(reservations, reservation_id,
                        ReservationDict(reservation_id, customer_id, hotel_id)))
               /\ uuids' = [uuids EXCEPT !.reservation = reservation_id]
               /\ ret' = [ret EXCEPT ![p] =
                            ReturnedAt("create_reservation",
                                       <<customer_id, hotel_id>>,
                                       reservation_id, TRUE,
                                       hotel_id, Seen(hotels, hotel_id), ret[p])]
    /\ UNCHANGED <<customersFile, pc, loc, crashes>>

\* Reservation.create_reservation
CreateReservation(p, customer_id, hotel_id) ==
    /\ pc[p] = "idle"
    /\ LET reservations == load_data(reservationsFile)
           hotels == load_data(hotelsFile)
           reservation_id == uuids.reservation + 1
       IN IF ~CanReserve(hotels, hotel_id)
          THEN /\ ret' = [ret EXCEPT ![p] =
                            ReturnedAt("create_reservation",
                                       <<customer_id, hotel_id>>, NoId, FALSE,
                                       hotel_id, Seen(hotels, hotel_id), ret[p])]
               /\ UNCHANGED <<hotelsFile, reservationsFile, uuids>>
          ELSE /\ uuids.reservation < MaxReservations
               /\ hotelsFile' = save_data(TakeRoom(hotels, hotel_id))
               /\ reservationsFile' = save_data(Put(reservations, reservation_id,
                        ReservationDict(reservation_id, customer_id, hotel_id)))
               /\ uuids' = [uuids EXCEPT !.reservation = reservation_id]
               /\ ret' = [ret EXCEPT ![p] =
                            ReturnedAt("create_reservation",
                                       <<customer_id, hotel_id>>,
                                       reservation_id, TRUE,
                                       hotel_id, Seen(hotels, hotel_id), ret[p])]
    /\ UNCHANGED <<customersFile, pc, loc, crashes>>

\* cancel_reservation that gives up, returning False, when the hotel is gone.
CancelReservation_NeedsHotel(p, reservation_id) ==
    /\ pc[p] = "idle"
    /\ LET reservations == load_data(reservationsFile)
           hotels == load_data(hotelsFile)
       IN IF /\ reservation_id \in DOMAIN reservations
             /\ reservations[reservation_id].hotel_id \in DOMAIN hotels
          THEN LET hotel_id == reservations[reservation_id].hotel_id
               IN /\ hotelsFile' = save_data(GiveRoomBack(hotels, hotel_id))
                  /\ reservationsFile' =
                        save_data(Del(reservations, reservation_id))
                  /\ ret' = [ret EXCEPT ![p] =
                            ReturnedAt("cancel_reservation", <<reservation_id>>,
                                       NoId, TRUE, hotel_id,
                                       Seen(hotels, hotel_id), ret[p])]
          ELSE /\ ret' = [ret EXCEPT ![p] =
                            Returned("cancel_reservation", <<reservation_id>>,
                                     NoId, FALSE)]
               /\ UNCHANGED <<hotelsFile, reservationsFile>>
    /\ UNCHANGED <<customersFile, uuids, pc, loc, crashes>>

\* Reservation.cancel_reservation
CancelReservation(p, reservation_id) ==
    /\ pc[p] = "idle"
    /\ LET reservations == load_data(reservationsFile)
           hotels == load_data(hotelsFile)
       IN IF reservation_id \in DOMAIN reservations
          THEN LET hotel_id == reservations[reservation_id].hotel_id
               IN /\ hotelsFile' =
                        IF hotel_id \in DOMAIN hotels
                        THEN save_data(GiveRoomBack(hotels, hotel_id))
                        ELSE hotelsFile
                  /\ reservationsFile' =
                        save_data(Del(reservations, reservation_id))
                  /\ ret' = [ret EXCEPT ![p] =
                            ReturnedAt("cancel_reservation", <<reservation_id>>,
                                       NoId, TRUE, hotel_id,
                                       Seen(hotels, hotel_id), ret[p])]
          ELSE /\ ret' = [ret EXCEPT ![p] =
                            Returned("cancel_reservation", <<reservation_id>>,
                                     NoId, FALSE)]
               /\ UNCHANGED <<hotelsFile, reservationsFile>>
    /\ UNCHANGED <<customersFile, uuids, pc, loc, crashes>>

\* ------------------------------------------------ sequential specification
Next ==
    \/ \E n \in Names, l \in Locations, r \in RoomsInputs : CreateHotel(Main, n, l, r)
    \/ \E h \in HotelIds : DeleteHotel(Main, h)
    \/ \E n \in CustomerNames, e \in Emails : CreateCustomer(Main, n, e)
    \/ \E c \in CustomerIds : DeleteCustomer(Main, c)
    \/ \E c \in CustomerIds, h \in HotelIds : CreateReservation(Main, c, h)
    \/ \E r \in ReservationIds : CancelReservation(Main, r)

Spec == Init /\ [][Next]_vars

\* --------------------------------- reservation calls, one file access a step
\* The callers that are inside create_reservation.
Creating == {q \in Procs : pc[q] \in {"cr_load_hotels", "cr_check", "cr_save_reservation"}}

\* create_reservation, line 146: the call and the load of the reservations.
CR_Call(p, customer_id, hotel_id) ==
    /\ pc[p] = "idle"
    /\ uuids.reservation + Cardinality(Creating) < MaxReservations
    /\ pc' = [pc EXCEPT ![p] = "cr_load_hotels"]
    /\ loc' = [loc EXCEPT ![p] =
                [NoLocals EXCEPT !.customer_id = customer_id,
                                 !.hotel_id = hotel_id,
                                 !.reservations = load_data(reservationsFile)]]
    /\ UNCHANGED <<hotelsFile, customersFile, reservationsFile, uuids, ret, crashes>>

\* create_reservation, line 147: the load of the hotels.
CR_LoadHotels(p) ==
    /\ pc[p] = "cr_load_hotels"
    /\ pc' = [pc EXCEPT ![p] = "cr_check"]
    /\ loc' = [loc EXCEPT ![p].hotels = load_data(hotelsFile),
                          ![p].seen = Seen(load_data(hotelsFile), loc[p].hotel_id)]
    /\ UNCHANGED <<hotelsFile, customersFile, reservationsFile, uuids, ret, crashes>>

\* CR_SaveHotels that decrements the loaded copy but does not save it yet.
CR_SaveHotels_NotYet(p) ==
    /\ pc[p] = "cr_check"
    /\ IF ~CanReserve(loc[p].hotels, loc[p].hotel_id)
       THEN /\ pc' = [pc EXCEPT ![p] = "idle"]
            /\ loc' = [loc EXCEPT ![p] = NoLocals]
            /\ ret' = [ret EXCEPT ![p] =
                        ReturnedAt("create_reservation",
                                   <<loc[p].customer_id, loc[p].hotel_id>>,
                                   NoId, FALSE, loc[p].hotel_id, loc[p].seen,
                                   ret[p])]
       ELSE /\ pc' = [pc EXCEPT ![p] = "cr_save_reservation"]
            /\ loc' = [loc EXCEPT ![p].hotels = TakeRoom(loc[p].hotels, loc[p].hotel_id)]
            /\ ret' = ret
    /\ UNCHANGED <<hotelsFile, customersFile, reservationsFile, uuids, crashes>>

\* CR_SaveHotels that decrements the hotels as stored now, not as loaded.
CR_SaveHotels_Reloads(p) ==
    /\ pc[p] = "cr_check"
    /\ IF ~CanReserve(loc[p].hotels, loc[p].hotel_id)
       THEN /\ pc' = [pc EXCEPT ![p] = "idle"]
            /\ loc' = [loc EXCEPT ![p] = NoLocals]
            /\ ret' = [ret EXCEPT ![p] =
                        ReturnedAt("create_reservation",
                                   <<loc[p].customer_id, loc[p].hotel_id>>,
                                   NoId, FALSE, loc[p].hotel_id, loc[p].seen,
                                   ret[p])]
            /\ hotelsFile' = hotelsFile
       ELSE /\ pc' = [pc EXCEPT ![p] = "cr_save_reservation"]
            /\ loc' = [loc EXCEPT ![p].hotels = TakeRoom(load_data(hotelsFile), loc[p].hotel_id)]
            /\ hotelsFile' = save_data(TakeRoom(load_data(hotelsFile), loc[p].hotel_id))
            /\ ret' = ret
    /\ UNCHANGED <<customersFile, reservationsFile, uuids, crashes>>

\* create_reservation, lines 149-154: the refusal test, then the decrement of
\* the loaded copy and the save of the hotels.
CR_SaveHotels(p) ==
    /\ pc[p] = "cr_check"
    /\ IF ~CanReserve(loc[p].hotels, loc[p].hotel_id)
       THEN /\ pc' = [pc EXCEPT ![p] = "idle"]
            /\ loc' = [loc EXCEPT ![p] = NoLocals]
            /\ ret' = [ret EXCEPT ![p] =
                        ReturnedAt("create_reservation",
                                   <<loc[p].customer_id, loc[p].hotel_id>>,
                                   NoId, FALSE, loc[p].hotel_id, loc[p].seen,
                                   ret[p])]
            /\ hotelsFile' = hotelsFile
       ELSE /\ pc' = [pc EXCEPT ![p] = "cr_save_reservation"]
            /\ loc' = [loc EXCEPT ![p].hotels = TakeRoom(loc[p].hotels, loc[p].hotel_id)]
            /\ hotelsFile' = save_data(TakeRoom(loc[p].hotels, loc[p].hotel_id))
            /\ ret' = ret
    /\ UNCHANGED <<customersFile, reservationsFile, uuids, crashes>>

\* CR_SaveReservation that adds the record to the reservations as stored now.
CR_SaveReservation_Reloads(p) ==
    /\ pc[p] = "cr_save_reservation"
    /\ LET reservation_id == uuids.reservation + 1
       IN /\ reservationsFile' =
                save_data(Put(load_data(reservationsFile), reservation_id,
                              ReservationDict(reservation_id, loc[p].customer_id,
                                              loc[p].hotel_id)))
          /\ uuids' = [uuids EXCEPT !.reservation = reservation_id]
          /\ ret' = [ret EXCEPT ![p] =
                        ReturnedAt("create_reservation",
                                   <<loc[p].customer_id, loc[p].hotel_id>>,
                                   reservation_id, TRUE, loc[p].hotel_id,
                                   loc[p].seen, ret[p])]
    /\ pc' = [pc EXCEPT ![p] = "idle"]
    /\ loc' = [loc EXCEPT ![p] = NoLocals]
    /\ UNCHANGED <<hotelsFile, customersFile, crashes>>

\* create_reservation, lines 156-159: the new Reservation, the save of the
\* reservations and the return.
CR_SaveReservation(p) ==
    /\ pc[p] = "cr_save_reservation"
    /\ LET reservation_id == uuids.reservation + 1
       IN /\ reservationsFile' =
                save_data(Put(loc[p].reservations, reservation_id,
                              ReservationDict(reservation_id, loc[p].customer_id,
                                              loc[p].hotel_id)))
          /\ uuids' = [uuids EXCEPT !.reservation = reservation_id]
          /\ ret' = [ret EXCEPT ![p] =
                        ReturnedAt("create_reservation",
                                   <<loc[p].customer_id, loc[p].hotel_id>>,
                                   reservation_id, TRUE, loc[p].hotel_id,
                                   loc[p].seen, ret[p])]
    /\ pc' = [pc EXCEPT ![p] = "idle"]
    /\ loc' = [loc EXCEPT ![p] = NoLocals]
    /\ UNCHANGED <<hotelsFile, customersFile, crashes>>

\* cancel_reservation, line 164: the call and the load of the reservations.
CN_Call(p, reservation_id) ==
    /\ pc[p] = "idle"
    /\ pc' = [pc EXCEPT ![p] = "cn_load_hotels"]
    /\ loc' = [loc EXCEPT ![p] =
                [NoLocals EXCEPT !.reservation_id = reservation_id,
                                 !.reservations = load_data(reservationsFile)]]
    /\ UNCHANGED <<hotelsFile, customersFile, reservationsFile, uuids, ret, crashes>>

\* cancel_reservation, line 165: the load of the hotels.
CN_LoadHotels(p) ==
    /\ pc[p] = "cn_load_hotels"
    /\ pc' = [pc EXCEPT ![p] = "cn_check"]
    /\ loc' = [loc EXCEPT ![p].hotels = load_data(hotelsFile)]
    /\ UNCHANGED <<hotelsFile, customersFile, reservationsFile, uuids, ret, crashes>>

\* CN_SaveHotels that increments the loaded copy but does not save it yet.
CN_SaveHotels_NotYet(p) ==
    /\ pc[p] = "cn_check"
    /\ IF loc[p].reservation_id \notin DOMAIN loc[p].reservations
       THEN /\ pc' = [pc EXCEPT ![p] = "idle"]
            /\ loc' = [loc EXCEPT ![p] = NoLocals]
            /\ ret' = [ret EXCEPT ![p] =
                        Returned("cancel_reservation", <<loc[p].reservation_id>>,
                                 NoId, FALSE)]
            /\ hotelsFile' = hotelsFile
       ELSE LET hotel_id == loc[p].reservations[loc[p].reservation_id].hotel_id
            IN /\ pc' = [pc EXCEPT ![p] = "cn_save_reservations"]
               /\ ret' = ret
               /\ IF hotel_id \in DOMAIN loc[p].hotels
                  THEN /\ loc' = [loc EXCEPT
                                    ![p].hotel_id = hotel_id,
                                    ![p].seen = Seen(loc[p].hotels, hotel_id),
                                    ![p].hotels = GiveRoomBack(loc[p].hotels, hotel_id)]
                       /\ hotelsFile' = hotelsFile
                  ELSE /\ loc' = [loc EXCEPT ![p].hotel_id = hotel_id]
                       /\ hotelsFile' = hotelsFile
    /\ UNCHANGED <<customersFile, reservationsFile, uuids, crashes>>

\* cancel_reservation, lines 167-171: the lookup of the reservation, then the
\* increment of the loaded copy and the save of the hotels when the hotel is
\* still stored.
CN_SaveHotels(p) ==
    /\ pc[p] = "cn_check"
    /\ IF loc[p].reservation_id \notin DOMAIN loc[p].reservations
       THEN /\ pc' = [pc EXCEPT ![p] = "idle"]
            /\ loc' = [loc EXCEPT ![p] = NoLocals]
            /\ ret' = [ret EXCEPT ![p] =
                        Returned("cancel_reservation", <<loc[p].reservation_id>>,
                                 NoId, FALSE)]
            /\ hotelsFile' = hotelsFile
       ELSE LET hotel_id == loc[p].reservations[loc[p].reservation_id].hotel_id
            IN /\ pc' = [pc EXCEPT ![p] = "cn_save_reservations"]
               /\ ret' = ret
               /\ IF hotel_id \in DOMAIN loc[p].hotels
                  THEN /\ loc' = [loc EXCEPT
                                    ![p].hotel_id = hotel_id,
                                    ![p].seen = Seen(loc[p].hotels, hotel_id),
                                    ![p].hotels = GiveRoomBack(loc[p].hotels, hotel_id)]
                       /\ hotelsFile' =
                            save_data(GiveRoomBack(loc[p].hotels, hotel_id))
                  ELSE /\ loc' = [loc EXCEPT ![p].hotel_id = hotel_id]
                       /\ hotelsFile' = hotelsFile
    /\ UNCHANGED <<customersFile, reservationsFile, uuids, crashes>>

\* cancel_reservation, lines 173-175: the removal, the save of the
\* reservations and the return.
CN_SaveReservations(p) ==
    /\ pc[p] = "cn_save_reservations"
    /\ reservationsFile' =
            save_data(Del(loc[p].reservations, loc[p].reservation_id))
    /\ ret' = [ret EXCEPT ![p] =
                ReturnedAt("cancel_reservation", <<loc[p].reservation_id>>,
                           NoId, TRUE, loc[p].hotel_id, loc[p].seen, ret[p])]
    /\ pc' = [pc EXCEPT ![p] = "idle"]
    /\ loc' = [loc EXCEPT ![p] = NoLocals]
    /\ UNCHANGED <<hotelsFile, customersFile, uuids, crashes>>

\* The process stops inside a reservation call: nothing more is written, the
\* call never returns.  The record keeps where it stopped and what it had read.
Crash(p) ==
    /\ pc[p] # "idle"
    /\ crashes < MaxCrashes
    /\ crashes' = crashes + 1
    /\ pc' = [pc EXCEPT ![p] = "idle"]
    /\ loc' = [loc EXCEPT ![p] = NoLocals]
    /\ ret' = [ret EXCEPT ![p] =
                ReturnedAt("crashed", <<pc[p]>>, NoId, FALSE,
                           loc[p].hotel_id, loc[p].seen, ret[p])]
    /\ UNCHANGED <<hotelsFile, customersFile, reservationsFile, uuids>>

\* One file access of a create_reservation call of caller p.  The customer_id
\* is only copied into the new record, so the calls taken apart into file
\* accesses are all made for the same customer.
CreateStep(p) ==
    \/ \E h \in HotelIds : CR_Call(p, TheCustomer, h)
    \/ CR_LoadHotels(p)
    \/ CR_SaveHotels(p)
    \/ CR_SaveReservation(p)

\* One file access of a cancel_reservation call of caller p.
CancelStep(p) ==
    \/ \E r \in ReservationIds : CN_Call(p, r)
    \/ CN_LoadHotels(p)
    \/ CN_SaveHotels(p)
    \/ CN_SaveReservations(p)

\* A hotel operation of caller p, as a whole.
HotelStep(p) ==
    \/ \E n \in Names, l \in Locations, r \in RoomsInputs : CreateHotel(p, n, l, r)
    \/ \E h \in HotelIds : DeleteHotel(p, h)

\* ------------------------------------ two callers, no locking (section 5)
\* Two callers inside create_reservation at once; either creates the hotels.
NextConc ==
    \E p \in Procs :
        \/ \E n \in Names, l \in Locations, r \in RoomsInputs : CreateHotel(p, n, l, r)
        \/ CreateStep(p)

SpecConc == Init /\ [][NextConc]_vars

\* ------------------------------- one caller that may stop inside a call
NextCrash ==
    \/ HotelStep(Main)
    \/ CreateStep(Main)
    \/ CancelStep(Main)
    \/ Crash(Main)

SpecCrash == Init /\ [][NextCrash]_vars

\* ------------------------------------------------ calls on damaged files
Stores == {"hotels", "customers", "reservations"}
Damage == {"corrupt", "undecodable"}

\* Something other than the program overwrites a store file with content
\* that is not the JSON save_data writes.
DamageFile(store, kind) ==
    /\ pc[Main] = "idle"
    /\ hotelsFile' = IF store = "hotels"
                     THEN [state |-> kind, data |-> EmptyMapping]
                     ELSE hotelsFile
    /\ customersFile' = IF store = "customers"
                        THEN [state |-> kind, data |-> EmptyMapping]
                        ELSE customersFile
    /\ reservationsFile' = IF store = "reservations"
                           THEN [state |-> kind, data |-> EmptyMapping]
                           ELSE reservationsFile
    /\ UNCHANGED <<uuids, pc, loc, ret, crashes>>

\* The operation op ends in the exception that left load_data: nothing is
\* saved and nothing is returned.
Raises(p, op, args) ==
    /\ pc[p] = "idle"
    /\ ret' = [ret EXCEPT ![p] = Returned("raised", <<op>> \o args, NoId, FALSE)]
    /\ UNCHANGED <<hotelsFile, customersFile, reservationsFile, uuids, pc, loc,
                   crashes>>

\* The hotel operations load hotels.json first (lines 62 and 71).
HotelCall(p) ==
    \/ /\ ~LoadRaises(hotelsFile)
       /\ \/ \E n \in Names, l \in Locations, r \in RoomsInputs :
                CreateHotel(p, n, l, r)
          \/ \E h \in HotelIds : DeleteHotel(p, h)
    \/ /\ LoadRaises(hotelsFile)
       /\ \/ \E n \in Names, l \in Locations, r \in RoomsInputs :
                Raises(p, "create_hotel", <<n, l, r>>)
          \/ \E h \in HotelIds : Raises(p, "delete_hotel", <<h>>)

\* The customer operations load customers.json first (lines 104 and 113).
CustomerCall(p) ==
    \/ /\ ~LoadRaises(customersFile)
       /\ \/ \E n \in CustomerNames, e \in Emails : CreateCustomer(p, n, e)
          \/ \E c \in CustomerIds : DeleteCustomer(p, c)
    \/ /\ LoadRaises(customersFile)
       /\ \/ \E n \in CustomerNames, e \in Emails :
                Raises(p, "create_customer", <<n, e>>)
          \/ \E c \in CustomerIds : Raises(p, "delete_customer", <<c>>)

\* The reservation operations load reservations.json and then hotels.json
\* (lines 146-147 and 164-165) before anything else.
ReservationCall(p) ==
    \/ /\ ~LoadRaises(reservationsFile)
       /\ ~LoadRaises(hotelsFile)
       /\ \/ \E c \in CustomerIds, h \in HotelIds : CreateReservation(p, c, h)
          \/ \E r \in ReservationIds : CancelReservation(p, r)
    \/ /\ LoadRaises(reservationsFile) \/ LoadRaises(hotelsFile)
       /\ \/ \E c \in CustomerIds, h \in HotelIds :
                Raises(p, "create_reservation", <<c, h>>)
          \/ \E r \in ReservationIds : Raises(p, "cancel_reservation", <<r>>)

NextCorrupt ==
    \/ \E s \in Stores, k \in Damage : DamageFile(s, k)
    \/ HotelCall(Main)
    \/ CustomerCall(Main)
    \/ ReservationCall(Main)

SpecCorrupt == Init /\ [][NextCorrupt]_vars

\* ------------------------------------------------------ the text of a file
\* json.dump writes a dict as text and json.load reads text back.  Text is
\* the sequence of its JSON tokens [t |-> kind, v |-> content]: punctuation,
\* white space (indent=4), strings, and numbers as the characters of their
\* decimal numeral.  An id of the model stands for the uuid string.
Token(t, v) == [t |-> t, v |-> v]
Punct(c) == Token(c, <<>>)
Ws == Token("ws", <<>>)

DigitChars == <<"0", "1", "2", "3", "4", "5", "6", "7", "8", "9">>

\* The decimal numeral of a natural number.
RECURSIVE Numeral(_)
Numeral(n) ==
    IF n < Len(DigitChars)
    THEN <<DigitChars[n + 1]>>
    ELSE Numeral(n \div Len(DigitChars)) \o <<DigitChars[(n % Len(DigitChars)) + 1]>>

\* How json.dump writes an int.
IntRepr(n) ==
    IF n < 0 THEN <<"-">> \o Numeral(0 - n) ELSE Numeral(n)

DigitValue(c) ==
    (CHOOSE i \in 1..Len(DigitChars) : DigitChars[i] = c) - 1

RECURSIVE NumeralValue(_)
NumeralValue(chars) ==
    IF Len(chars) = 0
    THEN 0
    ELSE NumeralValue(SubSeq(chars, 1, Len(chars) - 1)) * Len(DigitChars)
            + DigitValue(chars[Len(chars)])

\* A JSON integer: digits without a leading zero, after an optional minus.
IsNumeral(chars) ==
    /\ Len(chars) > 0
    /\ \A i \in 1..Len(chars) : \E j \in 1..Len(DigitChars) : DigitChars[j] = chars[i]
    /\ Len(chars) > 1 => chars[1] # "0"

IsIntRepr(chars) ==
    /\ Len(chars) > 0
    /\ IF chars[1] = "-" THEN IsNumeral(Tail(chars)) ELSE IsNumeral(chars)

\* How json.load reads an int.
IntValue(chars) ==
    IF chars[1] = "-" THEN 0 - NumeralValue(Tail(chars)) ELSE NumeralValue(chars)

\* The keys of a record of each store, in the order to_dict builds them.
Fields(store) ==
    IF store = "hotels"
    THEN <<"hotel_id", "name", "location", "rooms", "available_rooms">>
    ELSE IF store = "customers"
    THEN <<"customer_id", "name", "email">>
    ELSE <<"reservation_id", "customer_id", "hotel_id">>

\* json.dump writes a value by its type: these fields hold an int, every
\* other field holds a str.
IntFields == {"rooms", "available_rooms"}

EncodeValue(field, value) ==
    IF field \in IntFields
    THEN Token("number", IntRepr(value))
    ELSE Token("string", value)

\* The members of a record from field i on, each on a line of its own.
RECURSIVE EncodeFields(_, _, _)
EncodeFields(fields, i, record) ==
    IF i > Len(fields)
    THEN <<>>
    ELSE <<Ws, Token("string", fields[i]), Punct(":"),
           EncodeValue(fields[i], record[fields[i]])>>
         \o (IF i < Len(fields) THEN <<Punct(",")>> ELSE <<Ws>>)
         \o EncodeFields(fields, i + 1, record)

EncodeRecord(fields, record) ==
    <<Punct("{")>> \o EncodeFields(fields, 1, record) \o <<Punct("}")>>

\* The members of the outer dict, in the order the keys were inserted (ids
\* are handed out in increasing order).
RECURSIVE EncodeItems(_, _, _)
EncodeItems(fields, keys, data) ==
    IF keys = {}
    THEN <<>>
    ELSE LET k == CHOOSE x \in keys : \A y \in keys : x <= y
         IN <<Ws, Token("string", k), Punct(":")>>
            \o EncodeRecord(fields, data[k])
            \o (IF keys = {k} THEN <<Ws>> ELSE <<Punct(",")>>)
            \o EncodeItems(fields, keys \ {k}, data)

\* json.dump(data, file, indent=4)
json_dump(store, data) ==
    <<Punct("{")>> \o EncodeItems(Fields(store), DOMAIN data, data) \o <<Punct("}")>>

\* json.load: a JSON value starting at token i, and where the text goes on.
ParseFails == [ok |-> FALSE, value |-> EmptyMapping, next |-> 0]

At(ts, i) == IF i \in 1..Len(ts) THEN ts[i].t ELSE "eof"

RECURSIVE ParseValue(_, _)
RECURSIVE ParseMembers(_, _, _)
ParseValue(ts, i) ==
    IF At(ts, i) = "string"
    THEN [ok |-> TRUE, value |-> ts[i].v, next |-> i + 1]
    ELSE IF At(ts, i) = "number"
    THEN IF IsIntRepr(ts[i].v)
         THEN [ok |-> TRUE, value |-> IntValue(ts[i].v), next |-> i + 1]
         ELSE ParseFails
    ELSE IF At(ts, i) = "{"
    THEN IF At(ts, i + 1) = "}"
         THEN [ok |-> TRUE, value |-> EmptyMapping, next |-> i + 2]
         ELSE ParseMembers(ts, i + 1, EmptyMapping)
    ELSE ParseFails

ParseMembers(ts, i, object) ==
    IF At(ts, i) = "string" /\ At(ts, i + 1) = ":"
    THEN LET member == ParseValue(ts, i + 2)
         IN IF ~member.ok
            THEN ParseFails
            ELSE IF At(ts, member.next) = ","
            THEN ParseMembers(ts, member.next + 1,
                              Put(object, ts[i].v, member.value))
            ELSE IF At(ts, member.next) = "}"
            THEN [ok |-> TRUE, value |-> Put(object, ts[i].v, member.value),
                  next |-> member.next + 1]
            ELSE ParseFails
    ELSE ParseFails

\* json.load(file): the whole text must be one JSON value.
json_load(text) ==
    LET ts == SelectSeq(text, LAMBDA k : k.t # "ws")
        parsed == ParseValue(ts, 1)
    IN IF parsed.ok /\ parsed.next = Len(ts) + 1 THEN parsed ELSE ParseFails

\* The text of a file: what json.dump wrote when it is "ok", a JSON text cut
\* short when it is "corrupt", bytes that are no text when "undecodable".
TextOf(store, file) ==
    IF file.state = "ok" THEN json_dump(store, file.data)
    ELSE IF file.state = "corrupt" THEN <<Punct("{"), Ws, Token("string", NoId)>>
    ELSE IF file.state = "undecodable" THEN <<Token("bytes", <<>>)>>
    ELSE <<>>

\* The file that holds a text, as load_data tells the cases apart.
FileOf(text) ==
    IF \E i \in 1..Len(text) : text[i].t = "bytes"
    THEN [state |-> "undecodable", data |-> EmptyMapping]
    ELSE IF json_load(text).ok
    THEN [state |-> "ok", data |-> json_load(text).value]
    ELSE [state |-> "corrupt", data |-> EmptyMapping]

\* open(file_path, 'w') on a file that keeps its old content: the text is
\* written over the start of it.
WriteFile_NoTruncate(prior, text) ==
    text \o SubSeq(prior, Len(text) + 1, Len(prior))

\* open(file_path, 'w') empties the file, then json.dump writes the text.
WriteFile(prior, text) ==
    text

\* ----------------------------------------------------- save, then load
\* The collections a store can be asked to hold: any set of ids, each with a
\* record of the store's fields.
TestRooms == 10

\* A hotel as create_hotel stores it, or the hotel of test_create_hotel with
\* one room taken.
HotelRecords(h) ==
    {HotelDict(h, n, l, r) : n \in Names, l \in Locations, r \in RoomsInputs}
    \cup {[HotelDict(h, n, l, TestRooms) EXCEPT !.available_rooms = @ - 1] :
            n \in Names, l \in Locations}

HotelCollections ==
    {c \in UNION {[K -> UNION {HotelRecords(h) : h \in K}] : K \in SUBSET HotelIds} :
        \A h \in DOMAIN c : c[h].hotel_id = h}

CustomerCollections ==
    {c \in UNION {[K -> {CustomerDict(k, n, e) :
                            k \in K, n \in CustomerNames, e \in Emails}] :
                    K \in SUBSET CustomerIds} :
        \A k \in DOMAIN c : c[k].customer_id = k}

ReservationCollections ==
    {c \in UNION {[K -> {ReservationDict(r, k, h) :
                            r \in K, k \in {TheCustomer}, h \in HotelIds}] :
                    K \in SUBSET ReservationIds} :
        \A r \in DOMAIN c : c[r].reservation_id = r}

Collections(store) ==
    IF store = "hotels" THEN HotelCollections
    ELSE IF store = "customers" THEN CustomerCollections
    ELSE ReservationCollections

StoreFile(store) ==
    IF store = "hotels" THEN hotelsFile
    ELSE IF store = "customers" THEN customersFile
    ELSE reservationsFile

\* One file_path, holding anything a file can hold from an earlier run.
InitRoundTrip ==
    \E store \in Stores, state \in {"missing"} \cup Damage :
        /\ hotelsFile = [state |-> IF store = "hotels" THEN state ELSE "missing",
                         data |-> EmptyMapping]
        /\ customersFile = [state |-> IF store = "customers" THEN state ELSE "missing",
                            data |-> EmptyMapping]
        /\ reservationsFile = [state |-> IF store = "reservations" THEN state ELSE "missing",
                               data |-> EmptyMapping]
        /\ uuids = [hotel |-> 0, customer |-> 0, reservation |-> 0]
        /\ pc = [p \in Procs |-> "idle"]
        /\ loc = [p \in Procs |-> NoLocals]
        /\ ret = [p \in Procs |-> Returned("none", <<store>>, NoId, FALSE)]
        /\ crashes = 0

\* save_data(file_path, data); over is the state of the file before and lost
\* are the keys it held that data does not.
SaveData(p, store, data) ==
    /\ pc[p] = "idle"
    /\ ret[p].args[1] = store
    /\ LET prior == StoreFile(store)
           written == FileOf(WriteFile(TextOf(store, prior), json_dump(store, data)))
       IN /\ hotelsFile' = IF store = "hotels" THEN written ELSE hotelsFile
          /\ customersFile' = IF store = "customers" THEN written ELSE customersFile
          /\ reservationsFile' = IF store = "reservations" THEN written
                                 ELSE reservationsFile
          /\ ret' = [ret EXCEPT ![p] =
                        [op |-> "save_data", args |-> <<store, data>>,
                         id |-> NoId, ok |-> TRUE,
                         over |-> prior.state,
                         lost |-> DOMAIN load_data(prior) \ DOMAIN data]]
    /\ UNCHANGED <<uuids, pc, loc, crashes>>

NextRoundTrip ==
    \E store \in Stores : \E data \in Collections(store) : SaveData(Main, store, data)

SpecRoundTrip == InitRoundTrip /\ [][NextRoundTrip]_vars

\* ------------------------------------------------------- the stored state
\* Hotel.display_hotels
Hotels == load_data(hotelsFile)
\* Customer.display_customers
Customers == load_data(customersFile)
\* load_data(RESERVATIONS_FILE)
Reservations == load_data(reservationsFile)

\* The stored reservations whose hotel_id is h.
Booked(h) == {r \in DOMAIN Reservations : Reservations[r].hotel_id = h}

\* ------------------------------------------------------------------ claims

\* C1: under sequential access every stored hotel h has
\* 0 <= h.available_rooms <= h.rooms.  Refuted: create_hotel stores a negative
\* rooms argument as it is.
C1_AvailableWithinCapacity ==
    \A h \in DOMAIN Hotels :
        /\ 0 <= Hotels[h].available_rooms
        /\ Hotels[h].available_rooms <= Hotels[h].rooms

\* C2: under sequential access the number of stored reservations against a
\* stored hotel never exceeds that hotel's rooms.  Refuted for a hotel created
\* with negative rooms.
C2_NoDoubleBooking ==
    \A h \in DOMAIN Hotels : Cardinality(Booked(h)) <= Hotels[h].rooms

\* C3: whenever create_reservation returns a reservation, the hotel was stored
\* with available_rooms > 0 when the call was made.  Refuted: the call is
\* refused only when available_rooms == 0, so a negative count passes.
C3_CreatedOnlyWithRoomLeft ==
    [][ (uuids'.reservation # uuids.reservation) =>
            LET hotel_id == ret'[Main].args[2]
            IN /\ ret'[Main].op = "create_reservation"
               /\ hotel_id \in DOMAIN Hotels
               /\ Hotels[hotel_id].available_rooms > 0 ]_vars

\* C4: a successful create_reservation on a hotel with available_rooms = N
\* leaves N-1; cancelling that reservation in the very next call, the hotel
\* still stored, returns True, leaves N again and removes the reservation.
C4_CreateThenCancel ==
    [][ /\ (uuids'.reservation # uuids.reservation) =>
                LET h == ret'[Main].hotel
                IN /\ ret'[Main].seen = Hotels[h].available_rooms
                   /\ Hotels'[h].available_rooms = Hotels[h].available_rooms - 1
                   /\ ret'[Main].id \in DOMAIN Reservations'
        /\ ( /\ ret[Main].op = "create_reservation"
             /\ ret[Main].ok
             /\ ret'[Main].op = "cancel_reservation"
             /\ ret'[Main].args = <<ret[Main].id>>
             /\ ret[Main].hotel \in DOMAIN Hotels ) =>
                LET h == ret[Main].hotel
                IN /\ ret'[Main].ok
                   /\ Hotels[h].available_rooms = ret[Main].seen - 1
                   /\ Hotels'[h].available_rooms = ret[Main].seen
                   /\ ret[Main].id \in DOMAIN Reservations
                   /\ ret[Main].id \notin DOMAIN Reservations' ]_vars

\* A reservation was cancelled right after it was made, its hotel still stored.
C4_Witness ==
    /\ ret[Main].op = "cancel_reservation"
    /\ ret[Main].ok
    /\ ret[Main].after = ret[Main].args[1]
    /\ ret[Main].hotel \in DOMAIN Hotels
    /\ Hotels[ret[Main].hotel].available_rooms = ret[Main].seen + 1
    /\ ret[Main].seen >= 0

\* C5: create_reservation against a stored hotel whose available_rooms is 0
\* returns None and leaves the hotels file and the reservations file as they
\* were.
C5_NoRoomLeftRefused ==
    [][ ( /\ ret'[Main].op = "create_reservation"
          /\ ret'[Main].args[2] \in DOMAIN Hotels
          /\ Hotels[ret'[Main].args[2]].available_rooms = 0 ) =>
            /\ ret'[Main].id = NoId
            /\ ~ret'[Main].ok
            /\ hotelsFile' = hotelsFile
            /\ reservationsFile' = reservationsFile ]_vars

\* create_reservation was refused on a stored hotel that has rooms but none left.
C5_Witness ==
    /\ ret[Main].op = "create_reservation"
    /\ ret[Main].id = NoId
    /\ ret[Main].hotel \in DOMAIN Hotels
    /\ Hotels[ret[Main].hotel].available_rooms = 0
    /\ Hotels[ret[Main].hotel].rooms > 0
    /\ Booked(ret[Main].hotel) # {}

\* C6: create_reservation with a hotel_id that is not a key of the hotels
\* store returns None and changes none of the three files.
C6_UnknownHotelRefused ==
    [][ ( /\ ret'[Main].op = "create_reservation"
          /\ ret'[Main].args[2] \notin DOMAIN Hotels ) =>
            /\ ret'[Main].id = NoId
            /\ ~ret'[Main].ok
            /\ files' = files ]_vars

\* create_reservation was refused for a hotel id that is not stored, while
\* another hotel with a free room is.
C6_Witness ==
    /\ ret[Main].op = "create_reservation"
    /\ ret[Main].id = NoId
    /\ ret[Main].hotel \notin DOMAIN Hotels
    /\ \E h \in DOMAIN Hotels : Hotels[h].available_rooms > 0

\* C7: delete_hotel, delete_customer and cancel_reservation with an id that is
\* not a key of their store return False and change none of the three files
\* (so no hotel's available_rooms changes, and a repeated call does the same).
C7_AbsentIdIsNoOp ==
    [][ ( \/ /\ ret'[Main].op = "delete_hotel"
             /\ ret'[Main].args[1] \notin DOMAIN Hotels
          \/ /\ ret'[Main].op = "delete_customer"
             /\ ret'[Main].args[1] \notin DOMAIN Customers
          \/ /\ ret'[Main].op = "cancel_reservation"
             /\ ret'[Main].args[1] \notin DOMAIN Reservations ) =>
            /\ ~ret'[Main].ok
            /\ files' = files ]_vars

\* A delete or cancel of an absent id has returned False while hotels,
\* customers and reservations are stored.
C7_Witness ==
    /\ ret[Main].op \in {"delete_hotel", "delete_customer", "cancel_reservation"}
    /\ ~ret[Main].ok
    /\ DOMAIN Hotels # {}
    /\ DOMAIN Customers # {}
    /\ DOMAIN Reservations # {}

\* C10: under sequential access with no failure inside an operation, every
\* stored hotel h has available_rooms = rooms - (number of stored
\* reservations whose hotel_id is h).
C10_AvailabilityCountsReservations ==
    \A h \in DOMAIN Hotels :
        Hotels[h].available_rooms = Hotels[h].rooms - Cardinality(Booked(h))

\* A hotel with rooms is stored with a reservation against it, after another
\* reservation was made and cancelled.
C10_Witness ==
    \E h \in DOMAIN Hotels :
        /\ Hotels[h].rooms > 0
        /\ Booked(h) # {}
        /\ \E r \in 1..uuids.reservation : r \notin DOMAIN Reservations

\* Both callers are inside create_reservation on hotel h, each having loaded
\* available_rooms = 1, passed the refusal test and saved its decremented copy.
Race(h) ==
    \A p \in Procs :
        /\ pc[p] = "cr_save_reservation"
        /\ loc[p].hotel_id = h
        /\ loc[p].seen = 1

\* C8 as stated: when two unlocked create_reservation calls against a hotel
\* with available_rooms == 1 both observe the room and both decrement, the
\* hotel's available_rooms goes negative.  Refuted: it is 0.
C8_RaceGoesNegative ==
    \A h \in DOMAIN Hotels : Race(h) => Hotels[h].available_rooms < 0

\* C8 as amended: both calls observe available_rooms == 1, each decrements its
\* own loaded copy and writes 0 back, so the hotel's available_rooms is 0 (one
\* decrement is lost) and never negative for a hotel created with rooms >= 0;
\* each call then returns a stored reservation without writing the hotels again.
C8_RaceLosesADecrement ==
    /\ [](\A h \in DOMAIN Hotels :
            /\ Race(h) => Hotels[h].available_rooms = 0
            /\ Hotels[h].rooms >= 0 => Hotels[h].available_rooms >= 0)
    /\ [][ \A p \in Procs :
            (pc[p] = "cr_save_reservation" /\ pc'[p] = "idle") =>
                /\ ret'[p].op = "create_reservation"
                /\ ret'[p].ok
                /\ ret'[p].id \in DOMAIN Reservations'
                /\ hotelsFile' = hotelsFile ]_vars

\* Both callers hold a reservation for the one room of the same hotel.
C8_Witness ==
    \E h \in DOMAIN Hotels :
        /\ Hotels[h].rooms = 1
        /\ Hotels[h].available_rooms = 0
        /\ \A p \in Procs :
            /\ pc[p] = "idle"
            /\ ret[p].op = "create_reservation"
            /\ ret[p].ok
            /\ ret[p].hotel = h
            /\ ret[p].seen = 1
        /\ \A p, q \in Procs : p # q => ret[p].id # ret[q].id

\* C9: in create_reservation the decremented available_rooms is saved before
\* the reservation is; a process that stops between the two writes leaves the
\* hotel one room down with no reservation stored for it, and no step stores
\* a reservation whose decrement is not yet saved.
C9_HotelsSavedBeforeReservation ==
    [][ LET h == loc[Main].hotel_id
        IN /\ (pc[Main] = "cr_check" /\ pc'[Main] = "cr_save_reservation") =>
                /\ Hotels'[h].available_rooms = loc[Main].seen - 1
                /\ reservationsFile' = reservationsFile
           /\ (DOMAIN Reservations' \ DOMAIN Reservations # {}) =>
                /\ pc[Main] = "cr_save_reservation"
                /\ Hotels[h].available_rooms = loc[Main].seen - 1
                /\ hotelsFile' = hotelsFile
           /\ (pc[Main] = "cr_save_reservation" /\ ret'[Main].op = "crashed") =>
                /\ Hotels'[h].available_rooms = loc[Main].seen - 1
                /\ Reservations' = loc[Main].reservations
                /\ uuids' = uuids ]_vars

\* The process stopped between the two writes: the only room of the hotel is
\* taken and no reservation is stored.
C9_Witness ==
    /\ pc[Main] = "idle"
    /\ ret[Main].op = "crashed"
    /\ ret[Main].args = <<"cr_save_reservation">>
    /\ ret[Main].hotel \in DOMAIN Hotels
    /\ Hotels[ret[Main].hotel].rooms = 1
    /\ Hotels[ret[Main].hotel].available_rooms = 0
    /\ Booked(ret[Main].hotel) = {}

\* C11: cancelling a stored reservation whose hotel_id is no longer a key of
\* the hotels store returns True, removes that reservation and no other, and
\* leaves the hotels file as it was.
C11_CancelAfterHotelDeleted ==
    [][ LET r == ret'[Main].args[1]
        IN ( /\ ret'[Main].op = "cancel_reservation"
             /\ r \in DOMAIN Reservations
             /\ Reservations[r].hotel_id \notin DOMAIN Hotels ) =>
                /\ ret'[Main].ok
                /\ DOMAIN Reservations' = DOMAIN Reservations \ {r}
                /\ \A q \in DOMAIN Reservations' :
                      Reservations'[q] = Reservations[q]
                /\ hotelsFile' = hotelsFile
                /\ customersFile' = customersFile ]_vars

\* A reservation was cancelled after its hotel had been deleted, while another
\* hotel is stored.
C11_Witness ==
    /\ ret[Main].op = "cancel_reservation"
    /\ ret[Main].ok
    /\ ret[Main].hotel # NoId
    /\ ret[Main].hotel \notin DOMAIN Hotels
    /\ ret[Main].args[1] \notin DOMAIN Reservations
    /\ DOMAIN Hotels # {}

\* C12: create_reservation for a stored hotel with a room available returns a
\* reservation whose fresh id is then a key of the reservations store, mapped
\* to exactly the given customer_id and hotel_id, every reservation stored
\* before being kept; the customer_id need not be a key of the customers store.
C12_ReservationStoredAsGiven ==
    [][ LET c == ret'[Main].args[1]
            h == ret'[Main].args[2]
            id == ret'[Main].id
        IN ( /\ ret'[Main].op = "create_reservation"
             /\ h \in DOMAIN Hotels
             /\ Hotels[h].available_rooms > 0 ) =>
                /\ ret'[Main].ok
                /\ id # NoId
                /\ id \notin DOMAIN Reservations
                /\ DOMAIN Reservations' = DOMAIN Reservations \cup {id}
                /\ Reservations'[id] =
                      [reservation_id |-> id, customer_id |-> c, hotel_id |-> h]
                /\ \A r \in DOMAIN Reservations :
                      Reservations'[r] = Reservations[r] ]_vars

\* A second reservation was stored, for a customer id that is not stored, next
\* to the first one.
C12_Witness ==
    /\ ret[Main].op = "create_reservation"
    /\ ret[Main].ok
    /\ ret[Main].seen > 0
    /\ ret[Main].args[1] \notin DOMAIN Customers
    /\ ret[Main].id \in DOMAIN Reservations
    /\ Cardinality(DOMAIN Reservations) = 2

C17_OnlyAvailabilityChanges ==
    [][ IF ret'[Main].op \in {"create_reservation", "cancel_reservation"}
        THEN /\ customersFile' = customersFile
             /\ \/ reservationsFile' = reservationsFile
                \/ \A r \in DOMAIN Reservations :
                        (r \in DOMAIN Reservations') =>
                            (Reservations'[r] = Reservations[r])
             /\ \/ hotelsFile' = hotelsFile
                \/ /\ DOMAIN Hotels' = DOMAIN Hotels
                   /\ \A h \in DOMAIN Hotels :
                        IF h = ret'[Main].hotel
                        THEN /\ Hotels'[h].hotel_id = Hotels[h].hotel_id
                             /\ Hotels'[h].name = Hotels[h].name
                             /\ Hotels'[h].location = Hotels[h].location
                             /\ Hotels'[h].rooms = Hotels[h].rooms
                        ELSE Hotels'[h] = Hotels[h]
        ELSE /\ reservationsFile' = reservationsFile
             /\ \/ customersFile' = customersFile
                \/ \A c \in DOMAIN Customers :
                        (c \in DOMAIN Customers') => (Customers'[c] = Customers[c])
             /\ \/ hotelsFile' = hotelsFile
                \/ \A h \in DOMAIN Hotels :
                        (h \in DOMAIN Hotels') =>
                            /\ Hotels'[h].hotel_id = Hotels[h].hotel_id
                            /\ Hotels'[h].name = Hotels[h].name
                            /\ Hotels'[h].location = Hotels[h].location
                            /\ Hotels'[h].rooms = Hotels[h].rooms ]_vars

\* A room of one of two stored hotels was given back by a cancel while a
\* customer is stored.
C17_Witness ==
    /\ ret[Main].op = "cancel_reservation"
    /\ ret[Main].ok
    /\ ret[Main].hotel \in DOMAIN Hotels
    /\ Hotels[ret[Main].hotel].available_rooms = ret[Main].seen + 1
    /\ Cardinality(DOMAIN Hotels) = 2
    /\ DOMAIN Customers # {}

\* C18: in cancel_reservation the incremented available_rooms is saved before
\* the reservation is removed; a process that stops between the two writes
\* leaves the reservation stored with the room already given back, so that a
\* later cancel of the same id returns True and gives the room back again.
C18_RoomGivenBackBeforeRemoval ==
    [][ LET r == loc[Main].reservation_id
        IN /\ (pc[Main] = "cn_check" /\ pc'[Main] = "cn_save_reservations") =>
                LET h == loc'[Main].hotel_id
                IN /\ reservationsFile' = reservationsFile
                   /\ r \in DOMAIN Reservations'
                   /\ (h \in DOMAIN Hotels) =>
                        Hotels'[h].available_rooms = Hotels[h].available_rooms + 1
           /\ (DOMAIN Reservations \ DOMAIN Reservations' # {}) =>
                /\ pc[Main] = "cn_save_reservations"
                /\ DOMAIN Reservations \ DOMAIN Reservations' = {r}
                /\ hotelsFile' = hotelsFile
                /\ ret'[Main].op = "cancel_reservation"
                /\ ret'[Main].ok
                /\ (loc[Main].hotel_id \in DOMAIN Hotels) =>
                        Hotels[loc[Main].hotel_id].available_rooms = loc[Main].seen + 1
           /\ (pc[Main] = "cn_save_reservations" /\ ret'[Main].op = "crashed") =>
                /\ r \in DOMAIN Reservations'
                /\ files' = files
                /\ (loc[Main].hotel_id \in DOMAIN Hotels) =>
                        Hotels'[loc[Main].hotel_id].available_rooms = loc[Main].seen + 1
           /\ (pc[Main] = "cn_check" /\ pc'[Main] = "idle"
                    /\ ret'[Main].op = "cancel_reservation") =>
                /\ ~ret'[Main].ok
                /\ r \notin DOMAIN Reservations ]_vars

\* After the process stopped between the two writes of a cancel, a cancel of
\* a reservation returned True and its hotel has more rooms available than
\* it has rooms.
C18_Witness ==
    /\ crashes > 0
    /\ pc[Main] = "idle"
    /\ ret[Main].op = "cancel_reservation"
    /\ ret[Main].ok
    /\ ret[Main].hotel \in DOMAIN Hotels
    /\ Hotels[ret[Main].hotel].rooms > 0
    /\ Hotels[ret[Main].hotel].available_rooms > Hotels[ret[Main].hotel].rooms

\* C19: a create_reservation call saves the reservations it loaded at its
\* start plus its own record, whatever the file holds by then; with two
\* unlocked calls both return a reservation, the record the other call stored
\* in between is lost, and the hotels keep both decrements.
C19_SaveOverwritesWithLoadedCopy ==
    [][ \A p \in Procs :
            (pc[p] = "cr_save_reservation" /\ pc'[p] = "idle") =>
                /\ ret'[p].op = "create_reservation"
                /\ ret'[p].ok
                /\ DOMAIN Reservations' =
                        DOMAIN loc[p].reservations \cup {ret'[p].id}
                /\ \A r \in DOMAIN Reservations \ DOMAIN loc[p].reservations :
                        r \notin DOMAIN Reservations'
                /\ hotelsFile' = hotelsFile ]_vars

\* Both callers hold a reservation, only one of the two is stored, and a hotel
\* with rooms has fewer rooms available than its stored reservations explain.
C19_Witness ==
    /\ \A p \in Procs :
        /\ pc[p] = "idle"
        /\ ret[p].op = "create_reservation"
        /\ ret[p].ok
    /\ Cardinality({p \in Procs : ret[p].id \in DOMAIN Reservations}) = 1
    /\ \E h \in DOMAIN Hotels :
        /\ Hotels[h].rooms > 0
        /\ Booked(h) = {}
        /\ Hotels[h].available_rooms = Hotels[h].rooms - 1

\* C20: delete_hotel of a stored hotel with reservations against it returns
\* True and leaves the reservations file as it was; a reservation leaves the
\* store only through a cancel_reservation of its own id.
C20_DeleteHotelDoesNotCascade ==
    [][ /\ ( /\ ret'[Main].op = "delete_hotel"
             /\ ret'[Main].args[1] \in DOMAIN Hotels
             /\ Booked(ret'[Main].args[1]) # {} ) =>
                /\ ret'[Main].ok
                /\ ret'[Main].args[1] \notin DOMAIN Hotels'
                /\ reservationsFile' = reservationsFile
        /\ \A r \in DOMAIN Reservations \ DOMAIN Reservations' :
                /\ ret'[Main].op = "cancel_reservation"
                /\ ret'[Main].args = <<r>> ]_vars

\* A hotel was deleted and a reservation against it is still stored.
C20_Witness ==
    /\ ret[Main].op = "delete_hotel"
    /\ ret[Main].ok
    /\ ret[Main].args[1] \notin DOMAIN Hotels
    /\ \E r \in DOMAIN Reservations :
            Reservations[r].hotel_id = ret[Main].args[1]

\* C15: load fails open: whether a store file is missing, corrupt or
\* unreadable, load_data returns an empty mapping and no manager operation
\* ends in an error; each returns its normal result.
C15_LoadFailsOpen ==
    \A p \in Procs : ret[p].op # "raised"

\* C16: round trip: after save_data(file_path, data), load_data(file_path)
\* returns a collection equal to data field for field, whatever the file
\* held before; nothing of the former content is left.
C16_SaveThenLoad ==
    ret[Main].op = "save_data" =>
        /\ StoreFile(ret[Main].args[1]).state = "ok"
        /\ load_data(StoreFile(ret[Main].args[1])) = ret[Main].args[2]
        /\ DOMAIN load_data(StoreFile(ret[Main].args[1])) \cap ret[Main].lost = {}

\* A hotel with a two-digit number of rooms was saved over a file that held
\* a record under another id, and the file now holds that hotel alone.
C16_Witness ==
    /\ ret[Main].op = "save_data"
    /\ ret[Main].args[1] = "hotels"
    /\ ret[Main].over = "ok"
    /\ ret[Main].lost # {}
    /\ Hotels = ret[Main].args[2]
    /\ \E h \in DOMAIN Hotels :
        /\ Hotels[h].rooms = TestRooms
        /\ Hotels[h].available_rooms = TestRooms - 1

====
